---- MODULE Spec2Model ----
(***************************************************************************)
(* The title-derivation and rename pipeline of                             *)
(* my-tools/ai-file-renamer/rename-pdf.py: one call of rename_pdf on one   *)
(* document of a directory.                                                *)
(*                                                                         *)
(* Strings are sequences of code points, so that strip(), the two re.sub   *)
(* calls and the slice of sanitize_filename are computed character by      *)
(* character.  A file name stands for the path of that name in the         *)
(* document's directory (os.path.join(os.path.dirname(pdf_path), name)).   *)
(***************************************************************************)
EXTENDS Integers, Sequences, FiniteSets, TLC

(***************************************************************************)
(* Program constants                                                       *)
(***************************************************************************)
\* len(text) >= 50 in extract_text_from_first_page
MinTextLen == 50
\* stop_after_attempt(3) in the decorator of generate_title_with_gemini
StopAfterAttempt == 3
\* sanitized[:150] in sanitize_filename
MaxNameLen == 150
\* response.status_code != 200
StatusOK == 200
\* the replacement character '_' of both re.sub calls
Underscore == 95
\* \x1F, the last control character of the class [<>:"/\\|?*\x00-\x1F]
LastControl == 31

(***************************************************************************)
(* Bounds of the model                                                     *)
(***************************************************************************)
\* files other than the document that the directory holds at the start
MaxOthers == 2
\* files a concurrent writer creates in the directory during the call
MaxWrites == 1
\* length of the short arguments given to sanitize_filename
MaxInputLen == 3
\* length of what precedes and follows the filler of a long argument
MaxAffixLen == 1

(***************************************************************************)
(* String literals of the source                                           *)
(***************************************************************************)
\* ".pdf"
PdfExt == <<46, 112, 100, 102>>
\* "untitled.pdf"
Untitled == <<117, 110, 116, 105, 116, 108, 101, 100, 46, 112, 100, 102>>
\* 'Insufficient-Content', the answer the prompt asks for on unusable text
Sentinel == <<73, 110, 115, 117, 102, 102, 105, 99, 105, 101, 110, 116, 45,
              67, 111, 110, 116, 101, 110, 116>>
\* "Insufficient-Content.pdf"
SentinelPdf == Sentinel \o PdfExt

(***************************************************************************)
(* str.strip(), re.sub and slicing                                         *)
(***************************************************************************)
\* the characters c with c.isspace()
SpaceChars ==
    (9..13) \cup (28..32) \cup {133, 160, 5760} \cup (8192..8202)
            \cup {8232, 8233, 8239, 8287, 12288}

RECURSIVE LStrip(_, _)
\* s without its leading characters of the set chars
LStrip(s, chars) ==
    IF s # <<>> /\ Head(s) \in chars THEN LStrip(Tail(s), chars) ELSE s

RECURSIVE RStrip(_, _)
\* s without its trailing characters of the set chars
RStrip(s, chars) ==
    IF s # <<>> /\ s[Len(s)] \in chars
    THEN RStrip(SubSeq(s, 1, Len(s) - 1), chars)
    ELSE s

\* str.strip()
Strip(s) == RStrip(LStrip(s, SpaceChars), SpaceChars)

\* str.strip('_')
StripUnderscores(s) == RStrip(LStrip(s, {Underscore}), {Underscore})

\* the character class [<>:"/\\|?*\x00-\x1F]
IsInvalidChar(c) ==
    c \in {60, 62, 58, 34, 47, 92, 124, 63, 42} \cup (0..LastControl)

\* re.sub(r'[<>:"/\\|?*\x00-\x1F]', '_', title)
ReplaceInvalid(s) ==
    [i \in 1..Len(s) |-> IF IsInvalidChar(s[i]) THEN Underscore ELSE s[i]]

\* two strings without a run of underscores put together: where the first
\* ends and the second starts with an underscore, the two are one run
JoinCollapsed(l, r) ==
    IF l[Len(l)] = Underscore /\ r[1] = Underscore THEN l \o Tail(r) ELSE l \o r

RECURSIVE CollapseUnderscores(_)
\* re.sub(r'_+', '_', sanitized): every run of underscores becomes one
\* underscore; computed on the two halves of the string, so that the
\* recursion is as deep as the logarithm of the length
CollapseUnderscores(s) ==
    IF Len(s) < 2 THEN s
    ELSE JoinCollapsed(CollapseUnderscores(SubSeq(s, 1, Len(s) \div 2)),
                       CollapseUnderscores(SubSeq(s, Len(s) \div 2 + 1, Len(s))))

\* a variant of Truncate for a sanitize_filename without its slice
Truncate_None(s) == s

\* sanitized[:150]
Truncate(s) == SubSeq(s, 1, IF Len(s) < MaxNameLen THEN Len(s) ELSE MaxNameLen)

\* sanitize_filename(title)
sanitize_filename(title) ==
    LET stripped  == Strip(title)
        sanitized == StripUnderscores(CollapseUnderscores(ReplaceInvalid(stripped)))
        cut       == Truncate(sanitized)
    IN  IF stripped = <<>> THEN Untitled
        ELSE IF cut = <<>> THEN Untitled ELSE cut

\* a variant of Destination for a rename_pdf that appends ".pdf" to the title
\* as the service returned it
Destination_Raw(title) == title \o PdfExt

\* the file name rename_pdf composes: sanitize_filename(new_title) + ".pdf"
Destination(title) == sanitize_filename(title) \o PdfExt

(***************************************************************************)
(* Inputs                                                                  *)
(***************************************************************************)
\* the document's file name at the start: "in.pdf"
SrcName == <<105, 110, 46, 112, 100, 102>>

\* candidate texts the generation service answers with:
\* 'Insufficient-Content', "a", "in", "a/b", " b ", "", "/", "../b", "a\b"
Titles ==
    {Sentinel, <<97>>, <<105, 110>>, <<97, 47, 98>>, <<32, 98, 32>>, <<>>, <<47>>,
     <<46, 46, 47, 98>>, <<97, 92, 98>>}

\* file names of the directory the model distinguishes
Names == {SrcName} \cup {Destination(Strip(t)) : t \in Titles}

\* lengths of the stripped page-1 text pdftotext can print
TextLens == {0, MinTextLen - 1, MinTextLen, MinTextLen + 1}

\* results of one subprocess.run(["pdftotext", ...], timeout=30):
\* "ok" is returncode 0, "fail" a non-zero returncode, "timeout" is
\* subprocess.TimeoutExpired and "notfound" is FileNotFoundError
PdftotextResults ==
    {[kind |-> "ok", len |-> n] : n \in TextLens}
        \cup {[kind |-> k, len |-> 0] : k \in {"fail", "timeout", "notfound"}}

\* results of ocrmypdf.ocr(...): it returns, raises ExitCodeError, or raises
\* an exception that no except clause of the function names
OcrResults == {"ok", "ExitCodeError", "other"}

\* HTTP status codes of a response
Statuses == {StatusOK, 429, 500}

\* bodies of a response: "candidates" holds candidates[0].content.parts[0].text
Bodies == {"candidates", "not_json", "no_candidates", "empty_candidates", "missing_field"}

\* results of one requests.post: a transport error (requests.RequestException)
\* or a response
PostResults ==
    {[error |-> TRUE, status |-> 0, body |-> "none", text |-> <<>>]}
        \cup {[error |-> FALSE, status |-> st, body |-> "error", text |-> <<>>] :
                 st \in Statuses \ {StatusOK}}
        \cup {[error |-> FALSE, status |-> StatusOK, body |-> b, text |-> <<>>] :
                 b \in Bodies \ {"candidates"}}
        \cup {[error |-> FALSE, status |-> StatusOK, body |-> "candidates", text |-> t] :
                 t \in Titles}

(***************************************************************************)
(* State                                                                   *)
(***************************************************************************)
VARIABLES
    fs,            \* the directory: file name -> whose content the file holds
    dry_run,       \* the dry_run argument of rename_pdf
    pc,            \* the position of the call
    tempdir,       \* the tempfile.TemporaryDirectory of the OCR output exists
    first,         \* the result of the first pdftotext run
    ocr_invoked,   \* ocrmypdf.ocr has been called
    pdf_text,      \* len of the text extract_text_from_first_page returned
    attempts,      \* tenacity's attempt number: requests.post calls so far
    resps,         \* the results of those calls, in order
    new_title,     \* what generate_title_with_gemini returned
    new_path,      \* the destination rename_pdf composed
    reported,      \* the name in the log line about the rename
    outcome,       \* how the call ended
    exception,     \* the exception that left rename_pdf, if any
    interrupted_at,\* the position at which a user interrupt arrived, if any
    rename_calls,  \* calls of os.rename
    writes,        \* files the concurrent writer has created
    second,        \* the result of the pdftotext run on the OCR output
    logged,        \* the messages logged about the text extraction
    hung,          \* the collaborator that never answers, if any
    san_title,     \* the argument of a call of sanitize_filename
    san_name,      \* what that call returned
    san_again,     \* what sanitize_filename returned for san_name
    san_pc,        \* the position of the sanitizer calls
    key_flag,      \* args.api_key of main
    key_env,       \* os.getenv('GOOGLE_API_KEY')
    main_pc,       \* the position of main
    main_result,   \* how main ended
    dir_calls,     \* calls of rename_pdfs_in_directory
    processed      \* the documents rename_pdf was called for, in order

\* the state of one call of rename_pdf
pipeline_vars ==
    <<fs, dry_run, pc, tempdir, first, ocr_invoked, pdf_text, attempts, resps,
      new_title, new_path, reported, outcome, exception, interrupted_at,
      rename_calls, writes, second, logged, hung>>

\* the state of the calls of sanitize_filename on their own
sanitizer_vars == <<san_title, san_name, san_again, san_pc>>

\* the state of main
main_vars == <<key_flag, key_env, main_pc, main_result, dir_calls, processed>>

vars == <<pipeline_vars, sanitizer_vars, main_vars>>

\* the directory at the start: the document and at most MaxOthers other files
InitialDirs ==
    {[n \in {SrcName} \cup others |-> IF n = SrcName THEN "doc" ELSE "other"] :
        others \in {o \in SUBSET (Names \ {SrcName}) : Cardinality(o) <= MaxOthers}}

\* no call of sanitize_filename on its own is under way
SanitizerIdle ==
    /\ san_title = <<>>
    /\ san_name = <<>>
    /\ san_again = <<>>
    /\ san_pc = "idle"

\* main is not running: rename_pdf is called directly
MainIdle ==
    /\ key_flag = "none"
    /\ key_env = "none"
    /\ main_pc = "idle"
    /\ main_result = "none"
    /\ dir_calls = 0
    /\ processed = <<>>

\* the start of a call of rename_pdf in which every collaborator answers
InitPipeline ==
    /\ fs \in InitialDirs
    /\ dry_run \in BOOLEAN
    /\ pc = "extract"
    /\ SanitizerIdle
    /\ MainIdle
    /\ tempdir = FALSE
    /\ first = [kind |-> "none", len |-> 0]
    /\ ocr_invoked = FALSE
    /\ pdf_text = 0
    /\ attempts = 0
    /\ resps = <<>>
    /\ new_title = <<>>
    /\ new_path = <<>>
    /\ reported = <<>>
    /\ outcome = "none"
    /\ exception = "none"
    /\ interrupted_at = "none"
    /\ rename_calls = 0
    /\ writes = 0
    /\ second = [kind |-> "none", len |-> 0]
    /\ logged = {}

Init ==
    /\ InitPipeline
    /\ hung = "none"

(***************************************************************************)
(* extract_text_from_first_page                                            *)
(***************************************************************************)
\* a variant of HasEnoughText with the comparison off by one: len(text) > 50
HasEnoughText_Strict(len) == len > MinTextLen

\* the test on the first pdftotext result: len(text) >= 50
HasEnoughText(len) == len >= MinTextLen

\* the collaborators a call blocks on
Collaborators == {"pdftotext", "ocrmypdf", "gemini"}

\* the call passes a timeout to the collaborator: subprocess.run(...,
\* timeout=30) does; ocrmypdf.ocr(...) and requests.post(...) are called
\* without one
HasTimeout(c) == c = "pdftotext"

\* the results a blocking call can end with: any of them when the
\* collaborator answers; when it never answers, the timeout results if the
\* call passes a timeout, and none (the call never returns) if it does not
Answers(c, results, timeouts) ==
    IF hung # c THEN results
    ELSE IF HasTimeout(c) THEN timeouts ELSE {}

\* the pdftotext result of subprocess.TimeoutExpired
PdftotextTimedOut == {[kind |-> "timeout", len |-> 0]}

\* a variant of FirstLog that logs nothing when pdftotext is missing
FirstLog_Silent(kind) ==
    IF kind = "timeout" THEN {"pdftotext timed out"} ELSE {}

\* what the except clauses of the first pdftotext run log
FirstLog(kind) ==
    IF kind = "timeout" THEN {"pdftotext timed out"}
    ELSE IF kind = "notfound" THEN {"pdftotext not found"}
    ELSE {}

\* what is logged about the pdftotext run on the OCR output
SecondLog(kind) ==
    IF kind = "fail" THEN {"pdftotext failed after OCR"}
    ELSE IF kind = "timeout" THEN {"pdftotext timed out after OCR"}
    ELSE IF kind = "notfound" THEN {"pdftotext not found"}
    ELSE {}

\* a variant of TempDirAfterExit for a directory made without the with
\* block: nothing deletes it
TempDirAfterExit_Leaked(exists) == exists

\* whether the temporary directory exists after the with block is left, by
\* return or by exception: TemporaryDirectory.__exit__ deletes it
TempDirAfterExit(exists) == FALSE

\* the first pdftotext run and what the function does with its result
Pdftotext1 ==
    /\ pc = "extract"
    /\ \E r \in Answers("pdftotext", PdftotextResults, PdftotextTimedOut) :
        /\ first' = r
        /\ logged' = logged \cup FirstLog(r.kind)
        /\ IF r.kind = "ok" /\ HasEnoughText(r.len)
           THEN pdf_text' = r.len /\ pc' = "got_text"
           ELSE IF r.kind = "notfound"
                THEN pdf_text' = 0 /\ pc' = "got_text"
                ELSE pdf_text' = pdf_text /\ pc' = "fallback"
    /\ UNCHANGED <<fs, dry_run, tempdir, ocr_invoked, attempts, resps, new_title,
                   new_path, reported, outcome, exception, rename_calls, writes,
                   interrupted_at, second, hung,
                   sanitizer_vars, main_vars>>

\* logging.info("Fallback to OCR using ocrmypdf.") and
\* with tempfile.TemporaryDirectory() as temp_dir
EnterTempDir ==
    /\ pc = "fallback"
    /\ logged' = logged \cup {"Fallback to OCR"}
    /\ tempdir' = TRUE
    /\ pc' = "ocr"
    /\ UNCHANGED <<fs, dry_run, first, ocr_invoked, pdf_text, attempts, resps,
                   new_title, new_path, reported, outcome, exception, rename_calls,
                   writes, interrupted_at, second, hung,
                   sanitizer_vars, main_vars>>

\* ocrmypdf.ocr(pdf_path, temp_pdf, ...): the output goes to the temporary
\* directory; leaving the with block deletes the directory
Ocr ==
    /\ pc = "ocr"
    /\ ocr_invoked' = TRUE
    /\ \E r \in Answers("ocrmypdf", OcrResults, {}) :
        CASE r = "ok" ->
                /\ pc' = "extract_ocr"
                /\ UNCHANGED <<tempdir, pdf_text, outcome, exception, logged>>
          [] r = "ExitCodeError" ->
                /\ tempdir' = TempDirAfterExit(tempdir)
                /\ logged' = logged \cup {"ocrmypdf API failed"}
                /\ pdf_text' = 0
                /\ pc' = "got_text"
                /\ UNCHANGED <<outcome, exception>>
          [] r = "other" ->
                /\ tempdir' = TempDirAfterExit(tempdir)
                /\ outcome' = "Raised"
                /\ exception' = "OcrError"
                /\ pc' = "done"
                /\ UNCHANGED <<pdf_text, logged>>
    /\ UNCHANGED <<fs, dry_run, first, attempts, resps, new_title, new_path,
                   reported, rename_calls, writes, interrupted_at, second, hung,
                   sanitizer_vars, main_vars>>

\* the pdftotext run on the OCR output: its text is returned whatever its
\* length; a failure, a timeout and a missing tool all end in return ""
Pdftotext2 ==
    /\ pc = "extract_ocr"
    /\ \E r \in Answers("pdftotext", PdftotextResults, PdftotextTimedOut) :
        /\ second' = r
        /\ logged' = logged \cup SecondLog(r.kind)
        /\ pdf_text' = IF r.kind = "ok" THEN r.len ELSE 0
    /\ tempdir' = TempDirAfterExit(tempdir)
    /\ pc' = "got_text"
    /\ UNCHANGED <<fs, dry_run, first, ocr_invoked, attempts, resps, new_title,
                   new_path, reported, outcome, exception, rename_calls, writes,
                   interrupted_at, hung,
                   sanitizer_vars, main_vars>>

(***************************************************************************)
(* generate_title_with_gemini under its tenacity decorator                 *)
(***************************************************************************)
\* a variant of ShouldRetry that also retries a response with an error status
ShouldRetry_ErrorStatus(r) == r.error \/ r.status # StatusOK

\* a variant of ShouldRetry for a function body without its try/except: the
\* JSONDecodeError of response.json() is a requests.RequestException
ShouldRetry_JsonError(r) == r.error \/ r.body = "not_json"

\* retry=retry_if_exception_type(requests.RequestException)
ShouldRetry(r) == r.error

\* stop=stop_after_attempt(3)
ShouldStop(n) == n >= StopAfterAttempt

\* what the function body returns for a response
ReturnedTitle(r) ==
    IF r.status # StatusOK THEN <<>>
    ELSE IF r.body = "candidates" THEN Strip(r.text)
    ELSE <<>>

\* one requests.post and what the decorator and the function do with its
\* result: a transport error is retried until the stop condition, and then
\* tenacity raises RetryError (the decorator sets no reraise and no
\* retry_error_callback); a response ends the call with a return value
Post ==
    /\ pc = "request"
    /\ \E r \in Answers("gemini", PostResults, {}) :
        /\ attempts' = attempts + 1
        /\ resps' = Append(resps, r)
        /\ IF ShouldRetry(r)
           THEN IF ShouldStop(attempts + 1)
                THEN /\ outcome' = "Raised"
                     /\ exception' = "RetryError"
                     /\ pc' = "done"
                     /\ UNCHANGED new_title
                ELSE /\ pc' = "request"
                     /\ UNCHANGED <<new_title, outcome, exception>>
           ELSE /\ new_title' = ReturnedTitle(r)
                /\ pc' = "got_title"
                /\ UNCHANGED <<outcome, exception>>
    /\ UNCHANGED <<fs, dry_run, tempdir, first, ocr_invoked, pdf_text, new_path,
                   reported, rename_calls, writes,
                   interrupted_at, second, logged, hung,
                   sanitizer_vars, main_vars>>

(***************************************************************************)
(* rename_pdf                                                              *)
(***************************************************************************)
\* a variant of TextIsEmpty for a rename_pdf without its test of pdf_text
TextIsEmpty_Never(len) == FALSE

\* if not pdf_text
TextIsEmpty(len) == len = 0

\* if not new_title
TitleIsEmpty(title) == title = <<>>

\* a variant of DryRunBranch for a rename_pdf that ignores dry_run
DryRunBranch_Ignored(flag) == FALSE

\* if dry_run
DryRunBranch(flag) == flag

\* a variant of PathExists for a rename_pdf without its existence check
PathExists_Never(dir, path) == FALSE

\* os.path.exists(new_path)
PathExists(dir, path) == path \in DOMAIN dir

\* a variant of Rename that copies: the file is dst and stays at src
Rename_Copy(dir, src, dst) ==
    [n \in DOMAIN dir \cup {dst} |-> IF n = dst THEN dir[src] ELSE dir[n]]

\* os.rename(src, dst) where it succeeds: the file leaves src and is dst,
\* replacing what dst was
Rename(dir, src, dst) ==
    [n \in (DOMAIN dir \ {src}) \cup {dst} |-> IF n = dst THEN dir[src] ELSE dir[n]]

\* pdf_text = extract_text_from_first_page(pdf_path); if not pdf_text: return
CheckText ==
    /\ pc = "got_text"
    /\ IF TextIsEmpty(pdf_text)
       THEN /\ logged' = logged \cup {"No text extracted"}
            /\ outcome' = "SkippedNoText"
            /\ pc' = "done"
       ELSE /\ pc' = "request"
            /\ UNCHANGED <<outcome, logged>>
    /\ UNCHANGED <<fs, dry_run, tempdir, first, ocr_invoked, pdf_text, attempts,
                   resps, new_title, new_path, reported, exception, rename_calls,
                   writes,
                   interrupted_at, second, hung,
                   sanitizer_vars, main_vars>>

\* if not new_title: return; if dry_run: log new_title and return; otherwise
\* compose sanitized_title and new_path
CheckTitle ==
    /\ pc = "got_title"
    /\ IF TitleIsEmpty(new_title)
       THEN /\ outcome' = "SkippedNoTitle"
            /\ pc' = "done"
            /\ UNCHANGED <<new_path, reported>>
       ELSE IF DryRunBranch(dry_run)
            THEN /\ reported' = new_title
                 /\ outcome' = "DryRun"
                 /\ pc' = "done"
                 /\ UNCHANGED new_path
            ELSE /\ new_path' = Destination(new_title)
                 /\ pc' = "check"
                 /\ UNCHANGED <<outcome, reported>>
    /\ UNCHANGED <<fs, dry_run, tempdir, first, ocr_invoked, pdf_text, attempts,
                   resps, new_title, exception, rename_calls, writes,
                   interrupted_at, second, logged, hung,
                   sanitizer_vars, main_vars>>

\* if not os.path.exists(new_path): ... else: log "already exists. Skipping."
CheckExists ==
    /\ pc = "check"
    /\ IF PathExists(fs, new_path)
       THEN outcome' = "SkippedExists" /\ pc' = "done"
       ELSE outcome' = outcome /\ pc' = "rename"
    /\ UNCHANGED <<fs, dry_run, tempdir, first, ocr_invoked, pdf_text, attempts,
                   resps, new_title, new_path, reported, exception, rename_calls,
                   writes,
                   interrupted_at, second, logged, hung,
                   sanitizer_vars, main_vars>>

\* os.rename(pdf_path, new_path) and the log line after it.  The call can
\* fail with an OSError (permissions, disk).  When new_path exists by now,
\* POSIX replaces it silently and Windows raises FileExistsError.
OsRename ==
    /\ pc = "rename"
    /\ rename_calls' = rename_calls + 1
    /\ pc' = "done"
    /\ \E result \in {"done", "OSError"}, platform \in {"posix", "windows"} :
        IF result = "OSError" \/ (PathExists(fs, new_path) /\ platform = "windows")
        THEN /\ outcome' = "Raised"
             /\ exception' = "OSError"
             /\ UNCHANGED <<fs, reported>>
        ELSE /\ fs' = Rename(fs, SrcName, new_path)
             /\ reported' = new_path
             /\ outcome' = "Renamed"
             /\ UNCHANGED exception
    /\ UNCHANGED <<dry_run, tempdir, first, ocr_invoked, pdf_text, attempts, resps,
                   new_title, new_path, writes,
                   interrupted_at, second, logged, hung,
                   sanitizer_vars, main_vars>>

(***************************************************************************)
(* The environment                                                         *)
(***************************************************************************)
\* a user interrupt: KeyboardInterrupt is raised at the current statement,
\* no except clause of the program catches it, and the with block of the
\* temporary directory deletes it on the way out
Cancel ==
    /\ pc # "done"
    /\ tempdir' = TempDirAfterExit(tempdir)
    /\ outcome' = "Cancelled"
    /\ exception' = "KeyboardInterrupt"
    /\ interrupted_at' = pc
    /\ pc' = "done"
    /\ UNCHANGED <<fs, dry_run, first, ocr_invoked, pdf_text, attempts, resps,
                   new_title, new_path, reported, rename_calls, writes, second, logged, hung,
                   sanitizer_vars, main_vars>>

\* another process creates a file in the directory
WriterCreate ==
    /\ pc # "done"
    /\ writes < MaxWrites
    /\ \E n \in Names \ DOMAIN fs :
        fs' = [m \in DOMAIN fs \cup {n} |-> IF m = n THEN "writer" ELSE fs[m]]
    /\ writes' = writes + 1
    /\ UNCHANGED <<dry_run, pc, tempdir, first, ocr_invoked, pdf_text, attempts,
                   resps, new_title, new_path, reported, outcome, exception,
                   rename_calls,
                   interrupted_at, second, logged, hung,
                   sanitizer_vars, main_vars>>

(***************************************************************************)
(* Specifications                                                          *)
(***************************************************************************)
Next ==
    \/ Pdftotext1
    \/ EnterTempDir
    \/ Ocr
    \/ Pdftotext2
    \/ CheckText
    \/ Post
    \/ CheckTitle
    \/ CheckExists
    \/ OsRename
    \/ Cancel

\* one call of rename_pdf, nothing else touching the directory
Spec == Init /\ [][Next]_vars

NextRace == Next \/ WriterCreate

\* one call of rename_pdf while another process creates files in the directory
SpecRace == Init /\ [][NextRace]_vars

\* the start of a call in which one collaborator may never answer
InitHang ==
    /\ InitPipeline
    /\ hung \in Collaborators \cup {"none"}

\* the steps of the program itself
Step ==
    \/ Pdftotext1
    \/ EnterTempDir
    \/ Ocr
    \/ Pdftotext2
    \/ CheckText
    \/ Post
    \/ CheckTitle
    \/ CheckExists
    \/ OsRename

\* one call of rename_pdf with a collaborator that may never answer: the
\* program takes its next step whenever it can, and the user may interrupt
SpecHang == InitHang /\ [][Next]_vars /\ WF_vars(Step)

(***************************************************************************)
(* sanitize_filename called on its own                                     *)
(***************************************************************************)
\* rename_pdf is not running
PipelineIdle ==
    /\ pc = "idle"
    /\ tempdir = FALSE
    /\ first = [kind |-> "none", len |-> 0]
    /\ ocr_invoked = FALSE
    /\ pdf_text = 0
    /\ attempts = 0
    /\ resps = <<>>
    /\ new_title = <<>>
    /\ new_path = <<>>
    /\ reported = <<>>
    /\ outcome = "none"
    /\ exception = "none"
    /\ interrupted_at = "none"
    /\ rename_calls = 0
    /\ writes = 0
    /\ second = [kind |-> "none", len |-> 0]
    /\ logged = {}
    /\ hung = "none"

\* the characters of the arguments: tab, space, "/", "_" and "a"
InputChars == {9, 32, 47, Underscore, 97}

\* the sequences over chars of length at most n
SeqsUpTo(chars, n) == UNION {[1..k -> chars] : k \in 0..n}

\* n times "a"
Filler(n) == [i \in 1..n |-> 97]

\* arguments around and above the length limit: a filler of about 150
\* characters between two short affixes, with or without "aa" after them
LongInputs ==
    {pre \o Filler(n) \o suf \o tail :
        pre \in SeqsUpTo({32, Underscore, 97}, MaxAffixLen),
        suf \in SeqsUpTo({32, Underscore, 97}, MaxAffixLen),
        n \in {MaxNameLen - 2, MaxNameLen - 1, MaxNameLen},
        tail \in {<<>>, Filler(2)}}

\* the arguments sanitize_filename is called with
SanitizeInputs == SeqsUpTo(InputChars, MaxInputLen) \cup LongInputs

InitSanitize ==
    /\ PipelineIdle
    /\ MainIdle
    /\ fs = [n \in {SrcName} |-> "doc"]
    /\ dry_run = FALSE
    /\ san_title \in SanitizeInputs
    /\ san_name = <<>>
    /\ san_again = <<>>
    /\ san_pc = "call"

\* name = sanitize_filename(title)
Sanitize ==
    /\ san_pc = "call"
    /\ san_name' = sanitize_filename(san_title)
    /\ san_pc' = "returned"
    /\ UNCHANGED <<san_title, san_again, pipeline_vars, main_vars>>

\* sanitize_filename(name), the function applied to its own result
SanitizeAgain ==
    /\ san_pc = "returned"
    /\ san_again' = sanitize_filename(san_name)
    /\ san_pc' = "again"
    /\ UNCHANGED <<san_title, san_name, pipeline_vars, main_vars>>

NextSanitize ==
    \/ Sanitize
    \/ SanitizeAgain

\* sanitize_filename applied to an argument and then to its own result
SpecSanitize == InitSanitize /\ [][NextSanitize]_vars

(***************************************************************************)
(* main and rename_pdfs_in_directory                                       *)
(***************************************************************************)
\* file names of the scanned directory: "in.pdf", "a.pdf", "B.PDF", "c.txt"
MainNames ==
    {SrcName, <<97, 46, 112, 100, 102>>, <<66, 46, 80, 68, 70>>,
     <<99, 46, 116, 120, 116>>}

\* values of args.api_key and of the environment variable: absent, the empty
\* string, a key
KeyValues == {"none", "empty", "key"}

\* x or y
Or(x, y) == IF x \in {"none", "empty"} THEN y ELSE x

\* a variant of MissingKey for a main without its test of api_key
MissingKey_Never(k) == FALSE

\* if not api_key
MissingKey(k) == k \in {"none", "empty"}

\* what the name filename is bound to in rename_pdfs_in_directory: the
\* function imported by `from fileinput import filename`; the function
\* has no loop over the directory and never assigns the name
FilenameBinding == "function"

\* the object has a method lower: a str has, a function has not
HasLower(kind) == kind = "str"

\* str.lower() on ASCII letters
Lower(s) == [i \in 1..Len(s) |-> IF s[i] \in 65..90 THEN s[i] + 32 ELSE s[i]]

\* str.endswith(suffix)
EndsWith(s, suffix) ==
    /\ Len(s) >= Len(suffix)
    /\ SubSeq(s, Len(s) - Len(suffix) + 1, Len(s)) = suffix

InitMain ==
    /\ PipelineIdle
    /\ SanitizerIdle
    /\ fs \in {[n \in d |-> "doc"] : d \in SUBSET MainNames}
    /\ dry_run \in BOOLEAN
    /\ key_flag \in KeyValues
    /\ key_env \in KeyValues
    /\ main_pc = "start"
    /\ main_result = "none"
    /\ dir_calls = 0
    /\ processed = <<>>

\* main: api_key = args.api_key or os.getenv('GOOGLE_API_KEY'); without a key
\* it logs an error and returns, with one it calls rename_pdfs_in_directory
Main ==
    /\ main_pc = "start"
    /\ IF MissingKey(Or(key_flag, key_env))
       THEN /\ main_result' = "NoApiKey"
            /\ main_pc' = "exit"
            /\ UNCHANGED dir_calls
       ELSE /\ dir_calls' = dir_calls + 1
            /\ main_pc' = "directory"
            /\ UNCHANGED main_result
    /\ UNCHANGED <<key_flag, key_env, processed, pipeline_vars, sanitizer_vars>>

\* rename_pdfs_in_directory: its first statement evaluates filename.lower();
\* the name is the function of fileinput, so the attribute lookup raises
\* AttributeError before the try block, and the exception leaves the function
\* and main.  Were the name a str, the one call of rename_pdf would follow.
RenamePdfsInDirectory ==
    /\ main_pc = "directory"
    /\ IF HasLower(FilenameBinding)
       THEN /\ processed' = processed
            /\ main_result' = "returned"
       ELSE /\ processed' = processed
            /\ main_result' = "AttributeError"
    /\ main_pc' = "exit"
    /\ UNCHANGED <<key_flag, key_env, dir_calls, pipeline_vars, sanitizer_vars>>

NextMain ==
    \/ Main
    \/ RenamePdfsInDirectory

\* one run of main on a directory
SpecMain == InitMain /\ [][NextMain]_vars

(***************************************************************************)
(* Properties                                                              *)
(***************************************************************************)
\* the paths at which the input document's content is found
DocPaths == {n \in DOMAIN fs : fs[n] = "doc"}

\* the last result of requests.post is a status-200 response whose candidate
\* text is t
LastAnswerIs(t) ==
    /\ resps # <<>>
    /\ resps[Len(resps)] =
           [error |-> FALSE, status |-> StatusOK, body |-> "candidates", text |-> t]

\* every requests.post so far failed with a transport error
AllTransportErrors == resps # <<>> /\ \A i \in 1..Len(resps) : resps[i].error

\* extract_text_from_first_page has returned a text to rename_pdf
Acquired ==
    \/ pc \in {"got_text", "request", "got_title", "check", "rename"}
    \/ /\ pc = "done"
       /\ exception # "OcrError"
       /\ interrupted_at \notin {"extract", "fallback", "ocr", "extract_ocr"}

\* C1: when the existence check of rename_pdf finds a file at the destination,
\* the step leaves every file of the directory as it is, os.rename has not
\* been and is not called, and the call ends with the skipped-because-exists
\* outcome.
C1_NoClobber ==
    [][(pc = "check" /\ new_path \in DOMAIN fs /\ interrupted_at' = "none")
          => (fs' = fs /\ rename_calls' = 0 /\ outcome' = "SkippedExists"
                /\ pc' = "done")]_vars

\* C1 witness: the call ended as skipped-because-exists with another file at
\* the destination and the document still at its own path.
C1_Witness ==
    /\ pc = "done"
    /\ outcome = "SkippedExists"
    /\ new_path \in DOMAIN fs /\ fs[new_path] = "other"
    /\ fs[SrcName] = "doc"

\* C2: whatever a concurrent writer does between the existence check and the
\* rename, a rename that moves the document finds no file at the destination
\* at that moment, and no file the writer created is ever replaced or removed.
C2_NoOverwriteUnderRace ==
    [][/\ (rename_calls' # rename_calls /\ fs' # fs) => new_path \notin DOMAIN fs
       /\ \A n \in DOMAIN fs :
             fs[n] = "writer" => (n \in DOMAIN fs' /\ fs'[n] = "writer")]_vars

\* C3: in every state, cancelled or not, the document is found at exactly one
\* path, which is its original path or the destination, and no temporary OCR
\* directory exists once the call has ended.
C3_OnePathNoTempDir ==
    /\ Cardinality(DocPaths) = 1
    /\ DocPaths \subseteq {SrcName, new_path}
    /\ pc = "done" => ~tempdir

\* C3 witness: the call was interrupted while the temporary directory held
\* the OCR output; the directory is gone and the document is at its own path.
C3_Witness ==
    /\ pc = "done"
    /\ outcome = "Cancelled"
    /\ interrupted_at = "extract_ocr"
    /\ DocPaths = {SrcName}

\* C4: after a status-200 answer that is exactly Insufficient-Content the call
\* ends with the skipped-no-title outcome, and the document is never found
\* under the name Insufficient-Content.pdf.
C4_SentinelNormalized ==
    /\ SentinelPdf \notin DocPaths
    /\ (pc = "done" /\ LastAnswerIs(Sentinel) /\ interrupted_at = "none")
          => outcome = "SkippedNoTitle"

\* C5: when every request failed with a transport error, the call has made
\* exactly 3 attempts when it ends, no exception has left
\* generate_title_with_gemini, and the outcome is skipped-no-title.
C5_RetryBound ==
    (pc = "done" /\ AllTransportErrors /\ interrupted_at = "none")
        => (attempts = StopAfterAttempt /\ exception = "none"
              /\ outcome = "SkippedNoTitle")

\* C6: a request is repeated only after a transport error, so a response with
\* a status other than 200 is the last of its call; that call raises nothing
\* and returns the empty title, and a status-200 answer after one or two
\* transport errors returns that answer's title.
C6_OnlyTransportRetried ==
    /\ attempts = Len(resps)
    /\ \A i \in 1..(Len(resps) - 1) : resps[i].error
    /\ pc = "got_title" =>
          LET r == resps[Len(resps)]
          IN  /\ ~r.error
              /\ exception = "none"
              /\ r.status # StatusOK => new_title = <<>>
              /\ (r.status = StatusOK /\ r.body = "candidates")
                    => new_title = Strip(r.text)

\* C6 witness: a transport error, then a status-500 response that ended the
\* call after two requests.
C6_Witness ==
    /\ pc = "got_title"
    /\ Len(resps) = 2
    /\ resps[1].error
    /\ resps[2].status = 500

\* C7: when the first extraction printed fewer than 50 characters, OCR has
\* been invoked by the time the text is returned and before any request is
\* sent; when it printed 50 or more, OCR is never invoked.
C7_FallbackOrdering ==
    first.kind = "ok" =>
        IF first.len < MinTextLen
        THEN (Acquired \/ attempts > 0) => ocr_invoked
        ELSE ~ocr_invoked

\* C7 witness: a short first extraction, then OCR, then a request.
C7_Witness ==
    /\ first.kind = "ok"
    /\ first.len < MinTextLen
    /\ ocr_invoked
    /\ attempts > 0

\* C8: once text acquisition has returned empty text, no request is sent, the
\* document stays at its path with os.rename never called, and the call ends
\* with the skipped-no-text outcome.
C8_NoTextSkips ==
    (Acquired /\ pdf_text = 0) =>
        /\ attempts = 0
        /\ rename_calls = 0
        /\ DocPaths = {SrcName}
        /\ pc \in {"got_text", "done"}
        /\ (pc = "done" /\ interrupted_at = "none") => outcome = "SkippedNoText"

\* C8 witness: the OCR fallback ran, the text stayed empty and the call ended
\* as skipped-no-text.
C8_Witness ==
    /\ pc = "done"
    /\ outcome = "SkippedNoText"
    /\ ocr_invoked
    /\ pdf_text = 0

\* C9: with dry_run set no step changes the directory and os.rename is never
\* called.
C9_DryRunNoMutation ==
    [][dry_run => (fs' = fs /\ rename_calls' = 0)]_vars

\* C9 witness: a dry run that got a usable title and ended.
C9_Witness ==
    /\ dry_run
    /\ pc = "done"
    /\ outcome = "DryRun"
    /\ new_title # <<>>

\* C10: the name a dry run reports is the would-be destination, the sanitized
\* title followed by ".pdf".
C10_DryRunReportsDestination ==
    outcome = "DryRun" => reported = Destination(new_title)

\* the status-200 bodies without candidates[0].content.parts[0].text
MalformedBodies == Bodies \ {"candidates"}

\* C16: the temporary directory of the OCR output exists only inside the with
\* block; after extract_text_from_first_page has returned or raised, on any
\* path, it does not exist.
C16_TempDirDeleted ==
    tempdir => pc \in {"ocr", "extract_ocr"}

\* C16 witness: the extraction after OCR timed out, the function has
\* returned and the directory is gone.
C16_Witness ==
    /\ pc = "got_text"
    /\ ocr_invoked
    /\ second.kind = "timeout"
    /\ ~tempdir

\* C17: after a timeout of the first extraction OCR is not invoked and the
\* function returns empty text; after a timeout of the extraction on the OCR
\* output it returns empty text.
C17_TimeoutReturnsEmpty ==
    /\ first.kind = "timeout" => (~ocr_invoked /\ (Acquired => pdf_text = 0))
    /\ second.kind = "timeout" => (Acquired => pdf_text = 0)

\* C19: a status-200 response with a malformed body is the last request of
\* its call, which returns the empty title and raises nothing; os.rename is
\* not called and the call ends as skipped-no-title.
C19_MalformedIsNoTitle ==
    \A i \in 1..Len(resps) :
        (resps[i].status = StatusOK /\ resps[i].body \in MalformedBodies) =>
            /\ i = Len(resps)
            /\ pc \in {"got_title", "done"}
            /\ new_title = <<>>
            /\ exception \in {"none", "KeyboardInterrupt"}
            /\ rename_calls = 0
            /\ DocPaths = {SrcName}
            /\ (pc = "done" /\ interrupted_at = "none") => outcome = "SkippedNoTitle"

\* C19 witness: after a transport error, a status-200 response whose
\* candidate lacks a field ended the call as skipped-no-title.
C19_Witness ==
    /\ pc = "done"
    /\ outcome = "SkippedNoTitle"
    /\ Len(resps) = 2
    /\ resps[2].status = StatusOK
    /\ resps[2].body = "missing_field"

C18_EventuallyEnds == <>(pc = "done")

\* the characters < > : " / \ | ? * and the code points 0 to 31
ForbiddenChars == {60, 62, 58, 34, 47, 92, 124, 63, 42} \cup (0..31)

\* C11: what sanitize_filename returns, for a short or an over-long argument
\* and for its own result, is not empty, has at most 150 characters and
\* holds no forbidden character.
C11_SanitizerTotal ==
    /\ san_pc \in {"returned", "again"} =>
          /\ Len(san_name) \in 1..150
          /\ \A i \in 1..Len(san_name) : san_name[i] \notin ForbiddenChars
    /\ san_pc = "again" =>
          /\ Len(san_again) \in 1..150
          /\ \A i \in 1..Len(san_again) : san_again[i] \notin ForbiddenChars

\* C11 witness: an argument longer than 150 characters that starts with a
\* forbidden-free affix was cut to exactly 150 characters.
C11_Witness ==
    /\ san_pc = "returned"
    /\ Len(san_title) > 150
    /\ Len(san_name) = 150

\* C12: sanitize_filename applied to its own result returns that result.
C12_SanitizerIdempotent ==
    san_pc = "again" => san_again = san_name

\* the documents of the directory whose name ends in .pdf, in any case
MatchingDocs == {n \in DOMAIN fs : EndsWith(Lower(n), PdfExt)}

\* main was started with a key
HasKey == key_flag = "key" \/ key_env = "key"

\* C13: a run with a key ends with no exception having left the batch and
\* with rename_pdf called for every matching document, whatever happened to
\* the others.
C13_BatchNotAborted ==
    (main_pc = "exit" /\ HasKey) =>
        /\ main_result = "returned"
        /\ \A n \in MatchingDocs : \E i \in 1..Len(processed) : processed[i] = n

\* C14: a run with a key over a directory of n matching documents has called
\* rename_pdf exactly once for each of them when it ends.
C14_EachDocumentOnce ==
    (main_pc = "exit" /\ HasKey) =>
        /\ Len(processed) = Cardinality(MatchingDocs)
        /\ {processed[i] : i \in 1..Len(processed)} = MatchingDocs

\* C15: in a run without a key in the flag and in the environment,
\* rename_pdfs_in_directory is never called, no extraction, OCR, request or
\* rename happens, and main ends with the missing-key error.
C15_NoKeyNoProcessing ==
    (key_flag \in {"none", "empty"} /\ key_env \in {"none", "empty"}) =>
        /\ dir_calls = 0
        /\ main_pc \in {"start", "exit"}
        /\ processed = <<>>
        /\ pc = "idle" /\ first.kind = "none" /\ ~ocr_invoked
        /\ attempts = 0 /\ rename_calls = 0
        /\ main_pc = "exit" => main_result = "NoApiKey"

\* C15 witness: main has ended with the missing-key error, the flag absent
\* and the environment variable empty, in a directory that holds documents.
C15_Witness ==
    /\ main_pc = "exit"
    /\ main_result = "NoApiKey"
    /\ key_flag = "none"
    /\ key_env = "empty"
    /\ MatchingDocs # {}

\* the argument is empty or only whitespace, or holds nothing but forbidden
\* characters and underscores, so that nothing is left of it after cleaning
CleansToEmpty(s) ==
    \/ \A i \in 1..Len(s) : s[i] \in SpaceChars
    \/ \A i \in 1..Len(s) : s[i] \in ForbiddenChars \cup {Underscore}

\* C21: for an argument that is empty, only whitespace, or only forbidden
\* characters and underscores, sanitize_filename returns exactly "untitled",
\* so that the name with ".pdf" appended is "untitled.pdf".
C21_PlaceholderIsUntitled ==
    (san_pc = "returned" /\ CleansToEmpty(san_title)) =>
        /\ san_name = <<117, 110, 116, 105, 116, 108, 101, 100>>
        /\ san_name \o PdfExt =
               <<117, 110, 116, 105, 116, 108, 101, 100, 46, 112, 100, 102>>

\* the platforms the program runs on
Platforms == {"posix", "windows"}

\* the characters os.path splits a path at: "/", and on Windows "\" as well
Separators(platform) == IF platform = "windows" THEN {47, 92} ELSE {47}

\* the directory of pdf_path, os.path.dirname(pdf_path): "/d"
SrcDir == <<47, 100>>

\* os.path.join(dir, name): a name that starts with a separator is absolute
\* and replaces dir, any other name is appended after the platform's
\* separator (drive letters are left out, dir has none)
PathJoin(platform, dir, name) ==
    IF name # <<>> /\ name[1] \in Separators(platform) THEN name
    ELSE dir \o <<IF platform = "windows" THEN 92 ELSE 47>> \o name

\* the index of the last separator of path, 0 when it has none
LastSeparator(platform, path) ==
    LET at == {i \in 1..Len(path) : path[i] \in Separators(platform)}
    IN  IF at = {} THEN 0 ELSE CHOOSE i \in at : \A j \in at : j <= i

\* os.path.dirname(path): what precedes the last separator, without the
\* separators it ends with unless it is the root
DirName(platform, path) ==
    LET head == SubSeq(path, 1, LastSeparator(platform, path))
    IN  IF \A i \in 1..Len(head) : head[i] \in Separators(platform) THEN head
        ELSE RStrip(head, Separators(platform))

\* os.path.basename(path): what follows the last separator
BaseName(platform, path) ==
    SubSeq(path, LastSeparator(platform, path) + 1, Len(path))

\* C22: on either platform, the path rename_pdf composes for a title lies
\* directly in the directory of the document and its file name is
\* sanitize_filename(title) followed by ".pdf"; the document, renamed or
\* not, is a direct child of that directory.
C22_DestinationInSourceDir ==
    \A platform \in Platforms :
        /\ new_path # <<>> =>
              /\ DirName(platform, PathJoin(platform, SrcDir, new_path)) = SrcDir
              /\ BaseName(platform, PathJoin(platform, SrcDir, new_path))
                     = sanitize_filename(new_title) \o PdfExt
        /\ \A n \in DocPaths :
              DirName(platform, PathJoin(platform, SrcDir, n)) = SrcDir

\* C22 witness: the document was renamed for the title "../b", which holds
\* ".." and a separator.
C22_Witness ==
    /\ outcome = "Renamed"
    /\ new_title = <<46, 46, 47, 98>>
    /\ new_path \in DOMAIN fs
    /\ SrcName \notin DOMAIN fs

\* C23: a run with a key over a directory of two or more matching documents
\* that are all given one title ends normally with rename_pdf called for each
\* of them, exactly one os.rename performed (the first document's) and
\* every file of the directory still holding the content it started with.
C23_OnlyFirstRenamed ==
    (main_pc = "exit" /\ HasKey /\ Cardinality(MatchingDocs) >= 2) =>
        /\ main_result = "returned"
        /\ Len(processed) = Cardinality(MatchingDocs)
        /\ rename_calls = 1
        /\ Cardinality(DOMAIN fs) = Cardinality(DocPaths)
====
